---- MODULE Spec2Model ----
(* Ledger, access gate, quota engine, session handling and admin commands  *)
(* of the bot in src/main.py, as state machines over the flat-file store   *)
(* users_database.txt and the in-memory map user_chat_states.              *)
EXTENDS Integers, Sequences, FiniteSets, TLC

(***************************************************************************)
(* Configuration (src/config.py) and fixed tables (src/main.py)            *)
(***************************************************************************)
FREE_MESSAGES_LIMIT == 2
CREDITS_PER_MESSAGE == 2

\* city sentinel used by load/save/get_or_create ("non selezionata")
Unset == "non selezionata"

\* Telegram identities of the model; 1 stands for an allow-listed operator.
Identities == {1, 2}
ADMIN_IDS == {1}

\* Abstract 5-character public codes the random generator can propose.
Codes == {"A", "B"}
\* Length of the longest run of proposals generate_user_id is asked for.
MaxProposals == 2

(***************************************************************************)
(* The users dict of load_user_database: an insertion-ordered sequence of  *)
(* entries with pairwise distinct telegram_id.                             *)
(***************************************************************************)
HasKey(users, k) == \E i \in 1..Len(users) : users[i].telegram_id = k

KeyIndex(users, k) == CHOOSE i \in 1..Len(users) : users[i].telegram_id = k

Get(users, k) == users[KeyIndex(users, k)]

\* users[k] = data : replace in place, or append a new key at the end
DictSet(users, k, data) ==
    LET e == [telegram_id |-> k, unique_id |-> data.unique_id, credits |-> data.credits,
              city |-> data.city, free_messages_used |-> data.free_messages_used]
    IN IF HasKey(users, k)
       THEN [users EXCEPT ![KeyIndex(users, k)] = e]
       ELSE Append(users, e)

\* One persisted line "id|code|credits|city|free" as its tuple of fields.
FormatLine(e) == <<e.telegram_id, e.unique_id, e.credits, e.city, e.free_messages_used>>

\* main.py:109-121: a line of at least three fields, the last two defaulted
ParseLine(parts) ==
    [unique_id |-> parts[2],
     credits |-> parts[3],
     city |-> IF Len(parts) > 3 THEN parts[4] ELSE Unset,
     free_messages_used |-> IF Len(parts) > 4 THEN parts[5] ELSE 0]

RECURSIVE LoadLines(_, _)
LoadLines(lines, users) ==
    IF lines = <<>> THEN users
    ELSE LET parts == Head(lines)
         IN LoadLines(Tail(lines),
                      IF Len(parts) >= 3
                      THEN DictSet(users, parts[1], ParseLine(parts))
                      ELSE users)

load_user_database(file) == LoadLines(file, <<>>)

\* main.py:132-144: the dict save_user_to_database writes back
MergeRecord(users, telegram_id, unique_id, credits, city, free_messages_used) ==
    LET has == HasKey(users, telegram_id)
        city2 == IF has /\ city = Unset THEN Get(users, telegram_id).city ELSE city
        free2 == IF has /\ free_messages_used = 0
                 THEN Get(users, telegram_id).free_messages_used
                 ELSE free_messages_used
    IN DictSet(users, telegram_id,
               [unique_id |-> unique_id, credits |-> credits,
                city |-> city2, free_messages_used |-> free2])

\* main.py:146-148: every entry of the dict as one line, in dict order
WriteLines(users) == [i \in 1..Len(users) |-> FormatLine(users[i])]

\* save_user_to_database run to completion: the file it leaves
save_user_to_database(file, telegram_id, unique_id, credits, city, free_messages_used) ==
    WriteLines(MergeRecord(load_user_database(file), telegram_id, unique_id,
                           credits, city, free_messages_used))

\* main.py:130-150 when open() or a write raises: the exception is caught and
\* logged.  open(.., 'w') that fails leaves the file; once it succeeded the
\* file is empty, and of the lines of the dict the first flushed ones reach it.
SaveFailurePoints == {"open", "write"}

save_user_to_database_failing(file, telegram_id, unique_id, credits, city, free_messages_used, at, flushed) ==
    LET lines == WriteLines(MergeRecord(load_user_database(file), telegram_id, unique_id,
                                        credits, city, free_messages_used))
    IN IF at = "open" THEN file
       ELSE SubSeq(lines, 1, flushed)

UsedCodes(users) == {users[i].unique_id : i \in 1..Len(users)}

\* main.py:164-167: propose codes until one is not in the loaded dict
RECURSIVE FirstFresh(_, _)
FirstFresh(proposals, used) ==
    IF proposals = <<>> THEN "none"
    ELSE IF Head(proposals) \notin used THEN Head(proposals)
    ELSE FirstFresh(Tail(proposals), used)

\* a generator whose first proposal is taken without the uniqueness loop
PickUniqueIdUnchecked(proposals, users) ==
    IF proposals = <<>> THEN "none" ELSE Head(proposals)

PickUniqueId(proposals, users) == FirstFresh(proposals, UsedCodes(users))

Proposals == UNION {[1..n -> Codes] : n \in 1..MaxProposals}

\* the proposals generate_user_id makes when get_or_create_user(telegram_id)
\* reads file: none for a stored identity
ProposalsFor(file, telegram_id) ==
    IF HasKey(load_user_database(file), telegram_id) THEN {<<>>} ELSE Proposals

AsTuple(e) == [unique_id |-> e.unique_id, credits |-> e.credits, city |-> e.city,
               free_messages_used |-> e.free_messages_used]

\* get_or_create_user run to completion: the file it leaves and what it returns
get_or_create_user(file, telegram_id, proposals) ==
    LET users == load_user_database(file)
    IN IF HasKey(users, telegram_id)
       THEN [file |-> file, ret |-> AsTuple(Get(users, telegram_id)), created |-> FALSE]
       ELSE LET unique_id == PickUniqueId(proposals, users)
            IN [file |-> save_user_to_database(file, telegram_id, unique_id, 0, Unset, 0),
                ret |-> [unique_id |-> unique_id, credits |-> 0, city |-> Unset,
                         free_messages_used |-> 0],
                created |-> TRUE]

\* main.py:104-124 when reading raises after `read` lines (an I/O error, or a
\* line whose fields int() rejects): the exception is caught and logged, and
\* the dict built so far is returned
load_user_database_failing(file, read) == LoadLines(SubSeq(file, 1, read), <<>>)

\* get_or_create_user whose load is cut short after `read` lines; the load of
\* the save it then makes gets as far as `read_save` lines
get_or_create_user_failing(file, telegram_id, proposals, read, read_save) ==
    LET users == load_user_database_failing(file, read)
    IN IF HasKey(users, telegram_id)
       THEN [file |-> file, ret |-> AsTuple(Get(users, telegram_id)), created |-> FALSE]
       ELSE LET unique_id == PickUniqueId(proposals, users)
            IN [file |-> WriteLines(MergeRecord(load_user_database_failing(file, read_save),
                                                telegram_id, unique_id, 0, Unset, 0)),
                ret |-> [unique_id |-> unique_id, credits |-> 0, city |-> Unset,
                         free_messages_used |-> 0],
                created |-> TRUE]

\* the generator's proposals let the uniqueness loop of get_or_create_user end
LoopEnds(file, telegram_id, proposals) ==
    LET users == load_user_database(file)
    IN HasKey(users, telegram_id) \/ PickUniqueId(proposals, users) # "none"

\* find_user_by_unique_id: first entry in dict order carrying the code
find_user_by_unique_id(file, unique_id) ==
    LET users == load_user_database(file)
        hits == {i \in 1..Len(users) : users[i].unique_id = unique_id}
    IN IF hits = {} THEN [found |-> FALSE, telegram_id |-> 0, credits |-> 0, city |-> Unset]
       ELSE LET i == CHOOSE j \in hits : \A k \in hits : j <= k
            IN [found |-> TRUE, telegram_id |-> users[i].telegram_id,
                credits |-> users[i].credits, city |-> users[i].city]

\* an allow-list that is not consulted
is_admin_anyone(user_id) == TRUE

is_admin(user_id) == user_id \in ADMIN_IDS

(***************************************************************************)
(* AccessGate                                                              *)
(***************************************************************************)
\* What bot.get_chat_member can answer: a member status, or an exception.
OracleOutcomes == {"creator", "administrator", "member", "restricted", "left", "kicked", "error"}

\* a gate that lets a restricted member through
check_channel_membership_lenient(outcome) ==
    IF outcome = "error" THEN [ret |-> FALSE, raised |-> FALSE, logged |-> TRUE]
    ELSE [ret |-> outcome \in {"member", "administrator", "creator", "restricted"},
          raised |-> FALSE, logged |-> FALSE]

check_channel_membership(outcome) ==
    IF outcome = "error" THEN [ret |-> FALSE, raised |-> FALSE, logged |-> TRUE]
    ELSE [ret |-> outcome \in {"member", "administrator", "creator"},
          raised |-> FALSE, logged |-> FALSE]

(***************************************************************************)
(* QuotaEngine                                                             *)
(***************************************************************************)
\* a quota check that always allows
can_user_send_message_always(file, user_id, proposals) ==
    [file |-> get_or_create_user(file, user_id, proposals).file, ok |-> TRUE,
     via |-> "free"]

can_user_send_message(file, user_id, proposals) ==
    LET g == get_or_create_user(file, user_id, proposals)
    IN [file |-> g.file,
        ok |-> g.ret.free_messages_used < FREE_MESSAGES_LIMIT
               \/ g.ret.credits >= CREDITS_PER_MESSAGE,
        via |-> IF g.ret.free_messages_used < FREE_MESSAGES_LIMIT THEN "free"
                ELSE IF g.ret.credits >= CREDITS_PER_MESSAGE THEN "credits"
                ELSE "no_credits"]

\* a consume that deducts without looking at the balance
ConsumeDecisionUnchecked(r) ==
    IF r.free_messages_used < FREE_MESSAGES_LIMIT
    THEN [ok |-> TRUE, via |-> "free_message_used",
          sav |-> [r EXCEPT !.free_messages_used = @ + 1]]
    ELSE [ok |-> TRUE, via |-> "credits_used",
          sav |-> [r EXCEPT !.credits = @ - CREDITS_PER_MESSAGE]]

\* a consume that spends credits before the free allotment
ConsumeDecisionCreditsFirst(r) ==
    IF r.credits >= CREDITS_PER_MESSAGE
    THEN [ok |-> TRUE, via |-> "credits_used",
          sav |-> [r EXCEPT !.credits = @ - CREDITS_PER_MESSAGE]]
    ELSE IF r.free_messages_used < FREE_MESSAGES_LIMIT
    THEN [ok |-> TRUE, via |-> "free_message_used",
          sav |-> [r EXCEPT !.free_messages_used = @ + 1]]
    ELSE [ok |-> FALSE, via |-> "insufficient_credits", sav |-> r]

\* main.py:693-703: what consume_user_message does with the record it read:
\* the record it saves (sav) and what it returns
ConsumeDecision(r) ==
    IF r.free_messages_used < FREE_MESSAGES_LIMIT
    THEN [ok |-> TRUE, via |-> "free_message_used",
          sav |-> [r EXCEPT !.free_messages_used = @ + 1]]
    ELSE IF r.credits >= CREDITS_PER_MESSAGE
    THEN [ok |-> TRUE, via |-> "credits_used",
          sav |-> [r EXCEPT !.credits = @ - CREDITS_PER_MESSAGE]]
    ELSE [ok |-> FALSE, via |-> "insufficient_credits", sav |-> r]

consume_user_message(file, user_id, proposals) ==
    LET g == get_or_create_user(file, user_id, proposals)
        d == ConsumeDecision(g.ret)
    IN IF d.ok
       THEN [file |-> save_user_to_database(g.file, user_id, d.sav.unique_id,
                                            d.sav.credits, d.sav.city,
                                            d.sav.free_messages_used),
             ok |-> TRUE, via |-> d.via]
       ELSE [file |-> g.file, ok |-> FALSE, via |-> d.via]

\* consume_user_message whose save is hit by an I/O error: the save logs the
\* error and returns, and consume_user_message returns True as after a save
\* that wrote
consume_user_message_failing(file, user_id, proposals, at, flushed) ==
    LET g == get_or_create_user(file, user_id, proposals)
        d == ConsumeDecision(g.ret)
    IN IF d.ok
       THEN [file |-> save_user_to_database_failing(
                          g.file, user_id, d.sav.unique_id, d.sav.credits, d.sav.city,
                          d.sav.free_messages_used, at, flushed),
             ok |-> TRUE, via |-> d.via, failed |-> TRUE]
       ELSE [file |-> g.file, ok |-> FALSE, via |-> d.via, failed |-> FALSE]

(***************************************************************************)
(* Message texts.  A text is the sequence of its whitespace-separated      *)
(* tokens (message.text.split()); a button label or a city is one token.   *)
(***************************************************************************)
AmountTokens == {"0", "2", "3", "-1", "abc"}

\* int(command_parts[1]): raises ValueError unless the token is a decimal integer
IsIntText(tok) == tok \in {"0", "2", "3", "-1"}

ParseInt(tok) ==
    CASE tok = "0" -> 0
      [] tok = "2" -> 2
      [] tok = "3" -> 3
      [] tok = "-1" -> -1

\* str.upper() on a code token
Upper(tok) ==
    CASE tok = "a" -> "A"
      [] OTHER -> tok

\* "Z" is a well-formed code that no record carries
CodeTokens == Codes \cup {"a", "Z"}

\* every well-formed command, and one text for each way of being malformed
RechargeTexts ==
    {<<"/ricarica", a, c>> : a \in {"0", "2", "3"}, c \in CodeTokens}
    \cup {<<"/ricarica">>, <<"/ricarica", "3">>, <<"/ricarica", "3", "A", "extra">>,
          <<"/ricarica", "abc", "A">>, <<"/ricarica", "-1", "A">>}

InfoTexts ==
    {<<"/info", c>> : c \in {"A", "a", "Z"}}
    \cup {<<"/info">>, <<"/info", "A", "extra">>}

Msg(to, what) == [to |-> to, what |-> what]

(***************************************************************************)
(* AdminCommandProcessor                                                   *)
(***************************************************************************)
\* the checks before the lookup without the one on the sign of the amount
RechargeArgsSigned(user_id, text) ==
    IF ~is_admin(user_id) THEN [err |-> "no_permission", amount |-> 0, unique_id |-> ""]
    ELSE IF Len(text) # 3 THEN [err |-> "usage", amount |-> 0, unique_id |-> ""]
    ELSE IF ~IsIntText(text[2]) THEN [err |-> "not_a_number", amount |-> 0, unique_id |-> ""]
    ELSE [err |-> "", amount |-> ParseInt(text[2]), unique_id |-> Upper(text[3])]

\* main.py:957-977: the checks before any lookup; err = "" when all pass
RechargeArgs(user_id, text) ==
    IF ~is_admin(user_id) THEN [err |-> "no_permission", amount |-> 0, unique_id |-> ""]
    ELSE IF Len(text) # 3 THEN [err |-> "usage", amount |-> 0, unique_id |-> ""]
    ELSE IF ~IsIntText(text[2]) THEN [err |-> "not_a_number", amount |-> 0, unique_id |-> ""]
    ELSE IF ParseInt(text[2]) < 0 THEN [err |-> "negative", amount |-> 0, unique_id |-> ""]
    ELSE [err |-> "", amount |-> ParseInt(text[2]), unique_id |-> Upper(text[3])]

\* a recharge that adds the amount to the balance it found
RechargeRecordAdditive(unique_id, amount, current_credits, current_city, free_messages_used) ==
    [unique_id |-> unique_id, credits |-> current_credits + amount, city |-> current_city,
     free_messages_used |-> free_messages_used]

\* main.py:989-991: the record handle_recharge_command saves
RechargeRecord(unique_id, amount, current_credits, current_city, free_messages_used) ==
    [unique_id |-> unique_id, credits |-> amount, city |-> current_city,
     free_messages_used |-> free_messages_used]

\* a recharge that notifies the target before it saves, and gives up when the
\* notification fails
handle_recharge_command_notify_first(file, user_id, text, notify_ok, proposals) ==
    LET a == RechargeArgs(user_id, text)
    IN IF a.err # ""
       THEN [file |-> file, out |-> <<Msg(user_id, a.err)>>, lookup |-> FALSE]
       ELSE LET f == find_user_by_unique_id(file, a.unique_id)
            IN IF ~f.found
               THEN [file |-> file, out |-> <<Msg(user_id, "not_found")>>,
                     lookup |-> TRUE]
               ELSE IF ~notify_ok
               THEN [file |-> file,
                     out |-> <<Msg(user_id, "credits_set"), Msg(user_id, "could_not_notify")>>,
                     lookup |-> TRUE]
               ELSE [file |-> save_user_to_database(
                                  file, f.telegram_id, a.unique_id, a.amount, f.city,
                                  get_or_create_user(file, f.telegram_id, proposals)
                                      .ret.free_messages_used),
                     out |-> <<Msg(user_id, "credits_set"),
                               Msg(f.telegram_id, "your_credits_set")>>,
                     lookup |-> TRUE]

\* handle_recharge_command run to completion: the file it leaves, the messages
\* it sends, whether it looked the code up
handle_recharge_command(file, user_id, text, notify_ok, proposals) ==
    LET a == RechargeArgs(user_id, text)
    IN IF a.err # ""
       THEN [file |-> file, out |-> <<Msg(user_id, a.err)>>, lookup |-> FALSE]
       ELSE LET f == find_user_by_unique_id(file, a.unique_id)
            IN IF ~f.found
               THEN [file |-> file, out |-> <<Msg(user_id, "not_found")>>,
                     lookup |-> TRUE]
               ELSE LET g == get_or_create_user(file, f.telegram_id, proposals)
                        n == RechargeRecord(a.unique_id, a.amount, f.credits, f.city,
                                            g.ret.free_messages_used)
                    IN [file |-> save_user_to_database(
                                     g.file, f.telegram_id, n.unique_id, n.credits,
                                     n.city, n.free_messages_used),
                        out |-> <<Msg(user_id, "credits_set"),
                                  IF notify_ok
                                  THEN Msg(f.telegram_id, "your_credits_set")
                                  ELSE Msg(user_id, "could_not_notify")>>,
                        lookup |-> TRUE]

NoInfo == [unique_id |-> "", credits |-> 0, city |-> ""]

\* handle_info_command run to completion
handle_info_command(file, user_id, text) ==
    IF ~is_admin(user_id)
    THEN [file |-> file, out |-> <<Msg(user_id, "no_permission")>>, lookup |-> FALSE,
          info |-> NoInfo]
    ELSE IF Len(text) # 2
    THEN [file |-> file, out |-> <<Msg(user_id, "usage")>>, lookup |-> FALSE,
          info |-> NoInfo]
    ELSE LET f == find_user_by_unique_id(file, Upper(text[2]))
         IN IF ~f.found
            THEN [file |-> file, out |-> <<Msg(user_id, "not_found")>>, lookup |-> TRUE,
                  info |-> NoInfo]
            ELSE [file |-> file, out |-> <<Msg(user_id, "info")>>, lookup |-> TRUE,
                  info |-> [unique_id |-> Upper(text[2]), credits |-> f.credits,
                            city |-> f.city]]

(***************************************************************************)
(* City selection                                                          *)
(***************************************************************************)
\* a name of 58 letters, longer than any the validation lets through
LongName == "llanfairpwllgwyngyllgogerychwyrndrobwllllantysiliogogogoch"

CityTexts == {"roma", "ROMA", " Roma ", "Xyzzyville", "x", "  ", LongName}

\* str.strip()
Strip(s) ==
    CASE s = " Roma " -> "Roma"
      [] s = "  " -> ""
      [] OTHER -> s

\* str.lower()
Lower(s) ==
    CASE s \in {"ROMA", "Roma"} -> "roma"
      [] s = "Xyzzyville" -> "xyzzyville"
      [] OTHER -> s

\* a text kept as it was typed
TitleAsTyped(s) == s

\* str.title()
Title(s) ==
    CASE s \in {"roma", "ROMA", "Roma"} -> "Roma"
      [] s = "x" -> "X"
      [] OTHER -> s

\* len() of the texts of the model; a text of several tokens is a long one
StrLen(s) ==
    CASE s = "" -> 0
      [] s = "x" -> 1
      [] s \in {"roma", "ROMA", "Roma"} -> 4
      [] s = LongName -> 58
      [] OTHER -> 10

\* the members of get_italian_cities() the model's texts can name
get_italian_cities == {"roma"}

\* message.text of a text of the model, as one string
TextString(text) == IF Len(text) = 1 THEN text[1] ELSE "several words"

\* process_city_input run to completion
process_city_input(file, text, user_id, proposals) ==
    LET city_name == Strip(TextString(text))
    IN IF city_name = ""
       THEN [file |-> file, out |-> <<Msg(user_id, "city_invalid")>>, ok |-> FALSE]
       ELSE IF StrLen(city_name) < 2 \/ StrLen(city_name) > 50
       THEN [file |-> file, out |-> <<Msg(user_id, "city_invalid")>>, ok |-> FALSE]
       ELSE IF Strip(Lower(city_name)) \notin get_italian_cities
       THEN [file |-> file, out |-> <<Msg(user_id, "city_not_found")>>, ok |-> FALSE]
       ELSE LET g == get_or_create_user(file, user_id, proposals)
                proper_city_name == Title(city_name)
            IN [file |-> save_user_to_database(g.file, user_id, g.ret.unique_id,
                                               g.ret.credits, proper_city_name,
                                               g.ret.free_messages_used),
                out |-> <<Msg(user_id, "city_updated")>>, ok |-> TRUE]

(***************************************************************************)
(* Sessions and the message handlers                                       *)
(***************************************************************************)
\* The fake profiles, by name
FAKE_PROFILES == {"Sofia", "Giulia"}

NoSession == [present |-> FALSE, in_chat |-> FALSE, messages_sent |-> 0,
              current_profile |-> ""]

\* Button labels (config.py BUTTONS and the chat keyboard)
NEW_CHAT == "Nuova Chat"
PROFILE == "Profilo"
BUY_CREDITS == "Compra crediti"
NEW_USER == "Nuovo Utente"
END_CHAT == "Termina Chat"

\* What the handlers see of the membership oracle
GateOutcomes == {"member", "left", "error"}

\* a new profile that keeps the count of the conversation before it
send_random_profile_keep_count(states, user_id, profile) ==
    [states |-> [states EXCEPT ![user_id] =
                    [present |-> TRUE, in_chat |-> TRUE,
                     messages_sent |-> states[user_id].messages_sent,
                     current_profile |-> profile]],
     out |-> <<Msg(user_id, "profile_photo"), Msg(user_id, "persona_greeting")>>]

\* send_random_profile: the session is replaced before anything is sent
send_random_profile(states, user_id, profile) ==
    [states |-> [states EXCEPT ![user_id] =
                    [present |-> TRUE, in_chat |-> TRUE, messages_sent |-> 0,
                     current_profile |-> profile]],
     out |-> <<Msg(user_id, "profile_photo"), Msg(user_id, "persona_greeting")>>]

\* a new chat that does not look at the city
handle_new_chat_message_any_city(file, states, user_id, outcome, proposals, profile) ==
    IF check_channel_membership(outcome).ret
    THEN LET g == get_or_create_user(file, user_id, proposals)
             r == send_random_profile(states, user_id, profile)
         IN [file |-> g.file, states |-> r.states, out |-> r.out]
    ELSE [file |-> file, states |-> states, out |-> <<Msg(user_id, "not_subscribed")>>]

handle_new_chat_message(file, states, user_id, outcome, proposals, profile) ==
    IF check_channel_membership(outcome).ret
    THEN LET g == get_or_create_user(file, user_id, proposals)
         IN IF g.ret.city = Unset
            THEN [file |-> g.file, states |-> states,
                  out |-> <<Msg(user_id, "select_city_first")>>]
            ELSE LET r == send_random_profile(states, user_id, profile)
                 IN [file |-> g.file, states |-> r.states, out |-> r.out]
    ELSE [file |-> file, states |-> states, out |-> <<Msg(user_id, "not_subscribed")>>]

handle_new_user_message(file, states, user_id, outcome, proposals, profile) ==
    IF check_channel_membership(outcome).ret
    THEN LET g == get_or_create_user(file, user_id, proposals)
             r == send_random_profile(states, user_id, profile)
         IN [file |-> g.file, states |-> r.states, out |-> r.out]
    ELSE [file |-> file, states |-> states, out |-> <<Msg(user_id, "not_subscribed")>>]

\* an end of chat that marks the session as not in a conversation and keeps it
handle_end_chat_message_keep(file, states, user_id, outcome) ==
    IF check_channel_membership(outcome).ret
    THEN [file |-> file, states |-> [states EXCEPT ![user_id].in_chat = FALSE],
          out |-> <<Msg(user_id, "welcome")>>]
    ELSE [file |-> file, states |-> states, out |-> <<Msg(user_id, "not_subscribed")>>]

handle_end_chat_message(file, states, user_id, outcome) ==
    IF check_channel_membership(outcome).ret
    THEN [file |-> file, states |-> [states EXCEPT ![user_id] = NoSession],
          out |-> <<Msg(user_id, "welcome")>>]
    ELSE [file |-> file, states |-> states, out |-> <<Msg(user_id, "not_subscribed")>>]

handle_profile_message(file, states, user_id, outcome, proposals) ==
    IF check_channel_membership(outcome).ret
    THEN [file |-> get_or_create_user(file, user_id, proposals).file, states |-> states,
          out |-> <<Msg(user_id, "profile")>>]
    ELSE [file |-> file, states |-> states, out |-> <<Msg(user_id, "not_subscribed")>>]

\* handle_start, handle_buy_credits_message: a reply, no state
handle_start(file, states, user_id, outcome) ==
    [file |-> file, states |-> states,
     out |-> <<Msg(user_id, IF check_channel_membership(outcome).ret
                            THEN "welcome" ELSE "not_subscribed")>>]

handle_buy_credits_message(file, states, user_id, outcome) ==
    [file |-> file, states |-> states,
     out |-> <<Msg(user_id, IF check_channel_membership(outcome).ret
                            THEN "pricing" ELSE "not_subscribed")>>]

ButtonTexts == {<<NEW_CHAT>>, <<PROFILE>>, <<BUY_CREDITS>>, <<NEW_USER>>, <<END_CHAT>>}

\* a chat handler that consumes again after the reply and does not count the
\* message
handle_all_messages_twice(file, states, user_id, text, outcome, proposals) ==
    IF ~states[user_id].present \/ ~states[user_id].in_chat
    THEN [file |-> file, states |-> states, out |-> <<>>, consumed |-> 0, generated |-> 0]
    ELSE IF text \in ButtonTexts
    THEN [file |-> file, states |-> states, out |-> <<>>, consumed |-> 0, generated |-> 0]
    ELSE IF ~check_channel_membership(outcome).ret
    THEN [file |-> file, states |-> states, out |-> <<Msg(user_id, "not_subscribed")>>,
          consumed |-> 0, generated |-> 0]
    ELSE LET can == can_user_send_message(file, user_id, proposals)
         IN IF ~can.ok
            THEN [file |-> can.file, states |-> states,
                  out |-> <<Msg(user_id, "no_credits"), Msg(user_id, "pricing")>>,
                  consumed |-> 0, generated |-> 0]
            ELSE LET c == consume_user_message(can.file, user_id, proposals)
                     d == consume_user_message(c.file, user_id, proposals)
                 IN [file |-> d.file, states |-> states,
                     out |-> <<Msg(user_id, "persona_reply")>>,
                     consumed |-> 2, generated |-> 1]

\* handle_all_messages: one chat text of a user in conversation
handle_all_messages(file, states, user_id, text, outcome, proposals) ==
    IF ~states[user_id].present \/ ~states[user_id].in_chat
    THEN [file |-> file, states |-> states, out |-> <<>>, consumed |-> 0, generated |-> 0]
    ELSE IF text \in ButtonTexts
    THEN [file |-> file, states |-> states, out |-> <<>>, consumed |-> 0, generated |-> 0]
    ELSE IF ~check_channel_membership(outcome).ret
    THEN [file |-> file, states |-> states, out |-> <<Msg(user_id, "not_subscribed")>>,
          consumed |-> 0, generated |-> 0]
    ELSE LET can == can_user_send_message(file, user_id, proposals)
         IN IF ~can.ok
            THEN [file |-> can.file, states |-> states,
                  out |-> <<Msg(user_id, "no_credits"), Msg(user_id, "pricing")>>,
                  consumed |-> 0, generated |-> 0]
            ELSE LET c == consume_user_message(can.file, user_id, proposals)
                 IN IF ~c.ok
                    THEN [file |-> c.file, states |-> states,
                          out |-> <<Msg(user_id, "processing_error")>>,
                          consumed |-> 1, generated |-> 0]
                    ELSE [file |-> c.file,
                          states |-> [states EXCEPT ![user_id].messages_sent = @ + 1],
                          out |-> <<Msg(user_id, "persona_reply")>>,
                          consumed |-> 1, generated |-> 1]

\* handle_all_messages when the save inside consume_user_message is hit by an
\* I/O error; failed tells whether the handler got as far as that save
handle_all_messages_failing(file, states, user_id, text, outcome, proposals, at, flushed) ==
    IF \/ ~states[user_id].present
       \/ ~states[user_id].in_chat
       \/ text \in ButtonTexts
       \/ ~check_channel_membership(outcome).ret
       \/ ~can_user_send_message(file, user_id, proposals).ok
    THEN [file |-> file, states |-> states, out |-> <<>>, consumed |-> 0, generated |-> 0,
          failed |-> FALSE]
    ELSE LET can == can_user_send_message(file, user_id, proposals)
             c == consume_user_message_failing(can.file, user_id, proposals, at, flushed)
         IN IF ~c.ok
            THEN [file |-> c.file, states |-> states,
                  out |-> <<Msg(user_id, "processing_error")>>,
                  consumed |-> 1, generated |-> 0, failed |-> c.failed]
            ELSE [file |-> c.file,
                  states |-> [states EXCEPT ![user_id].messages_sent = @ + 1],
                  out |-> <<Msg(user_id, "persona_reply")>>,
                  consumed |-> 1, generated |-> 1, failed |-> c.failed]

(***************************************************************************)
(* State                                                                   *)
(***************************************************************************)
VARIABLES
    database_file,      \* users_database.txt: the sequence of its lines
    user_chat_states,   \* user_chat_states: identity -> session
    next_step,          \* identities with a registered process_city_input step
    threads,            \* the handler threads of the worker pool
    started,            \* operations the threads have started
    committed,          \* identity -> the record last written by an operation on it
    last                \* the operation that ran last: its input and its results

conc == <<threads, started, committed>>

vars == <<database_file, user_chat_states, next_step, threads, started, committed, last>>

ThreadIds == {1, 2}

NoRecord == [unique_id |-> "", credits |-> 0, city |-> "", free_messages_used |-> 0]

\* A thread between operations.  Running one it holds: the identity it works
\* on, the dict it is about to write (users), the record get_or_create_user
\* returned (rec), the record being saved (sav), the operation's own
\* arguments (req), where a finished save returns to (after), and the
\* messages_sent it read before adding one (count).
IdleThread == [pc |-> "idle", op |-> "", user_id |-> 0, users |-> <<>>,
               rec |-> NoRecord, sav |-> NoRecord, req |-> NoRecord, after |-> "",
               count |-> 0]

NoCommit == [present |-> FALSE, rec |-> NoRecord, writes |-> 0]

\* The update being handled: the operation, its input, what it sent and
\* returned, and the store and the sessions it started from; gate is what
\* get_chat_member answers for the sender while the update is handled.
Done(op, who, text, out, ok, via) ==
    [op |-> op, who |-> who, text |-> text, out |-> out, ok |-> ok, via |-> via,
     consumed |-> 0, generated |-> 0, rec |-> NoRecord, gate |-> "",
     pre_file |-> database_file, pre_states |-> user_chat_states]

NoUpdate == [op |-> "idle", who |-> 0, text |-> <<>>, out |-> <<>>, ok |-> FALSE,
             via |-> "", consumed |-> 0, generated |-> 0, rec |-> NoRecord,
             gate |-> "", pre_file |-> <<>>,
             pre_states |-> [u \in Identities |-> NoSession]]

Idle == last.op = "idle"

Init ==
    /\ database_file = <<>>
    /\ user_chat_states = [u \in Identities |-> NoSession]
    /\ next_step = {}
    /\ threads = [t \in ThreadIds |-> IdleThread]
    /\ started = 0
    /\ committed = [u \in Identities |-> NoCommit]
    /\ last = NoUpdate

(***************************************************************************)
(* Operations run one at a time, each to completion                        *)
(***************************************************************************)
GetOrCreate(u) ==
    /\ Idle
    /\ \E p \in ProposalsFor(database_file, u) :
        /\ LoopEnds(database_file, u, p)
        /\ LET g == get_or_create_user(database_file, u, p)
           IN /\ database_file' = g.file
              /\ last' = Done("get_or_create", u, p, <<>>, g.created, g.ret.unique_id)
        /\ UNCHANGED <<user_chat_states, next_step, conc>>

Check(u) ==
    /\ Idle
    /\ \E p \in ProposalsFor(database_file, u) :
        /\ LoopEnds(database_file, u, p)
        /\ LET c == can_user_send_message(database_file, u, p)
           IN /\ database_file' = c.file
              /\ last' = Done("check", u, <<>>, <<>>, c.ok, c.via)
        /\ UNCHANGED <<user_chat_states, next_step, conc>>

Consume(u) ==
    /\ Idle
    /\ \E p \in ProposalsFor(database_file, u) :
        /\ LoopEnds(database_file, u, p)
        /\ LET c == consume_user_message(database_file, u, p)
           IN /\ database_file' = c.file
              /\ last' = Done("consume", u, <<>>, <<>>, c.ok, c.via)
        /\ UNCHANGED <<user_chat_states, next_step, conc>>

CityInput(u) ==
    /\ Idle
    /\ \E p \in ProposalsFor(database_file, u), city \in CityTexts :
        /\ LoopEnds(database_file, u, p)
        /\ LET c == process_city_input(database_file, <<city>>, u, p)
           IN /\ database_file' = c.file
              /\ last' = Done("city", u, <<city>>, c.out, c.ok, "")
        /\ UNCHANGED <<user_chat_states, next_step, conc>>

Recharge(u) ==
    /\ Idle
    /\ \E text \in RechargeTexts, notify_ok \in BOOLEAN :
        LET r == handle_recharge_command(database_file, u, text, notify_ok, <<>>)
        IN /\ database_file' = r.file
           /\ last' = Done("recharge", u, text, r.out, r.lookup, "")
           /\ UNCHANGED <<user_chat_states, next_step, conc>>

Info(u) ==
    /\ Idle
    /\ \E text \in InfoTexts :
        LET r == handle_info_command(database_file, u, text)
        IN /\ database_file' = r.file
           /\ last' = Done("info", u, text, r.out, r.lookup, "")
           /\ UNCHANGED <<user_chat_states, next_step, conc>>

Membership ==
    /\ Idle
    /\ \E outcome \in OracleOutcomes :
        LET m == check_channel_membership(outcome)
        IN /\ last' = Done("membership", 0, <<outcome>>, <<>>, m.ret,
                           IF m.raised THEN "raised" ELSE "returned")
           /\ UNCHANGED <<database_file, user_chat_states, next_step, conc>>

\* infinity_polling: the update is done with, the next one is taken
NextUpdate ==
    /\ ~Idle
    /\ last' = NoUpdate
    /\ UNCHANGED <<database_file, user_chat_states, next_step, conc>>

Next ==
    \/ \E u \in Identities :
          \/ GetOrCreate(u)
          \/ Check(u)
          \/ Consume(u)
          \/ CityInput(u)
          \/ Recharge(u)
          \/ Info(u)
    \/ Membership
    \/ NextUpdate

Spec == Init /\ [][Next]_vars

(***************************************************************************)
(* save_user_to_database called with any record, next to get_or_create_user *)
(***************************************************************************)
SavedCredits == {0, 3}
SavedCities == {Unset, Title("roma")}
SavedFree == 0..FREE_MESSAGES_LIMIT

SaveRecord(u) ==
    /\ Idle
    /\ \E unique_id \in Codes, credits \in SavedCredits, city \in SavedCities,
          free_messages_used \in SavedFree :
        /\ database_file' = save_user_to_database(database_file, u, unique_id, credits,
                                                  city, free_messages_used)
        /\ last' = [Done("save", u, <<>>, <<>>, TRUE, "")
                       EXCEPT !.rec = [unique_id |-> unique_id, credits |-> credits,
                                       city |-> city,
                                       free_messages_used |-> free_messages_used]]
    /\ UNCHANGED <<user_chat_states, next_step, conc>>

\* save_user_to_database hit by an I/O error at open() or at a write
SaveFails(u) ==
    /\ Idle
    /\ \E unique_id \in Codes, credits \in SavedCredits, city \in SavedCities,
          free_messages_used \in SavedFree, at \in SaveFailurePoints :
        LET n == Len(MergeRecord(load_user_database(database_file), u, unique_id,
                                 credits, city, free_messages_used))
        IN \E flushed \in 0..(n - 1) :
            /\ database_file' = save_user_to_database_failing(
                                    database_file, u, unique_id, credits, city,
                                    free_messages_used, at, flushed)
            /\ last' = [Done("save_failed", u, <<>>, <<>>, FALSE, at)
                           EXCEPT !.rec = [unique_id |-> unique_id, credits |-> credits,
                                           city |-> city,
                                           free_messages_used |-> free_messages_used]]
    /\ UNCHANGED <<user_chat_states, next_step, conc>>

\* get_or_create_user of a stored identity while reading the file fails
GetOrCreateReadError(u) ==
    /\ Idle
    /\ HasKey(load_user_database(database_file), u)
    /\ \E read \in 0..(Len(database_file) - 1), read_save \in 0..Len(database_file),
          p \in Proposals :
        LET g == get_or_create_user_failing(database_file, u, p, read, read_save)
        IN /\ g.ret.unique_id # "none"
           /\ database_file' = g.file
           /\ last' = [Done("get_or_create_read_error", u, p, <<>>, g.created,
                             g.ret.unique_id)
                          EXCEPT !.rec = g.ret]
    /\ UNCHANGED <<user_chat_states, next_step, conc>>

NextStore ==
    \/ \E u \in Identities :
          \/ SaveRecord(u)
          \/ SaveFails(u)
          \/ GetOrCreateReadError(u)
          \/ GetOrCreate(u)
    \/ NextUpdate

SpecStore == Init /\ [][NextStore]_vars

(***************************************************************************)
(* The admin commands next to conversations being started, so that the     *)
(* sessions the commands must leave alone exist.                           *)
(***************************************************************************)
StartConversation(u) ==
    /\ Idle
    /\ \E outcome \in GateOutcomes, p \in ProposalsFor(database_file, u),
          profile \in FAKE_PROFILES :
        /\ LoopEnds(database_file, u, p)
        /\ LET r == handle_new_user_message(database_file, user_chat_states, u,
                                            outcome, p, profile)
           IN /\ database_file' = r.file
              /\ user_chat_states' = r.states
              /\ last' = Done("handle_new_user_message", u, <<NEW_USER>>, r.out,
                              TRUE, outcome)
        /\ UNCHANGED <<next_step, conc>>

NextAdmin ==
    \/ \E u \in Identities :
          \/ StartConversation(u)
          \/ Consume(u)
          \/ Recharge(u)
          \/ Info(u)
    \/ NextUpdate

SpecAdmin == Init /\ [][NextAdmin]_vars

(***************************************************************************)
(* Conversations with balances: the handlers called on chat texts, next to *)
(* recharges that put credits on the records.                              *)
(***************************************************************************)
\* Chat texts answered in one conversation.
MaxTurns == 3

ChatTexts == {<<"ciao">>, <<PROFILE>>}

Chat(u) ==
    /\ Idle
    /\ \E text \in ChatTexts, outcome \in GateOutcomes,
          p \in ProposalsFor(database_file, u) :
        LET r == handle_all_messages(database_file, user_chat_states, u, text,
                                     outcome, p)
        IN /\ LoopEnds(database_file, u, p)
           /\ r.states[u].messages_sent <= MaxTurns
           /\ database_file' = r.file
           /\ user_chat_states' = r.states
           /\ last' = [Done("handle_all_messages", u, text, r.out, TRUE, outcome)
                          EXCEPT !.consumed = r.consumed, !.generated = r.generated]
    /\ UNCHANGED <<next_step, conc>>

\* handle_recharge_command setting a balance of 3
TopUp ==
    /\ Idle
    /\ \E c \in Codes, admin \in ADMIN_IDS :
        LET text == <<"/ricarica", "3", c>>
            r == handle_recharge_command(database_file, admin, text, TRUE, <<>>)
        IN /\ database_file' = r.file
           /\ last' = Done("recharge", admin, text, r.out, r.lookup, "")
    /\ UNCHANGED <<user_chat_states, next_step, conc>>

\* a chat text whose consume_user_message cannot write the file
ChatWriteError(u) ==
    /\ Idle
    /\ user_chat_states[u].in_chat
    /\ \E text \in ChatTexts, outcome \in GateOutcomes, at \in SaveFailurePoints,
          flushed \in 0..(Len(database_file) - 1) :
        LET r == handle_all_messages_failing(database_file, user_chat_states, u, text,
                                             outcome, <<>>, at, flushed)
        IN /\ HasKey(load_user_database(database_file), u)
           /\ r.failed
           /\ r.states[u].messages_sent <= MaxTurns
           /\ database_file' = r.file
           /\ user_chat_states' = r.states
           /\ last' = [Done("handle_all_messages_write_error", u, text, r.out, TRUE,
                             outcome)
                          EXCEPT !.consumed = r.consumed, !.generated = r.generated]
    /\ UNCHANGED <<next_step, conc>>

NextChat ==
    \/ \E u \in Identities :
          \/ StartConversation(u)
          \/ Chat(u)
    \/ TopUp
    \/ NextUpdate

SpecChat == Init /\ [][NextChat]_vars

\* conversations in which the file cannot always be written
NextChatFaults ==
    \/ \E u \in Identities :
          \/ StartConversation(u)
          \/ Chat(u)
          \/ ChatWriteError(u)
    \/ NextUpdate

SpecChatFaults == Init /\ [][NextChatFaults]_vars

(***************************************************************************)
(* ResponseEngine.  Emoji are written as names in brackets.                *)
(***************************************************************************)
Prompts == {"", "ciao", "Ciao come stai", "come ti chiami", "hello",
            "tell me something new", "Cosa mi faresti", "ciao, tutto bene"}

\* prompt.lower().strip()
PromptLower(prompt) ==
    CASE prompt = "Ciao come stai" -> "ciao come stai"
      [] prompt = "Cosa mi faresti" -> "cosa mi faresti"
      [] OTHER -> prompt

\* the keys of response_patterns the prompts of the model can contain, in
\* dict order
Keywords == <<"ciao", "bene", "come stai", "come ti chiami", "cosa mi faresti",
              "faresti">>

\* keyword in prompt_lower
Contains(keyword, prompt_lower) ==
    \/ keyword = "ciao" /\ prompt_lower \in {"ciao", "ciao come stai", "ciao, tutto bene"}
    \/ keyword = "bene" /\ prompt_lower = "ciao, tutto bene"
    \/ keyword = "come stai" /\ prompt_lower = "ciao come stai"
    \/ keyword = "come ti chiami" /\ prompt_lower = "come ti chiami"
    \/ keyword = "cosa mi faresti" /\ prompt_lower = "cosa mi faresti"
    \/ keyword = "faresti" /\ prompt_lower = "cosa mi faresti"

\* the first two replies of each list
response_patterns(keyword, profile_name) ==
    CASE keyword = "ciao" ->
            <<"Ciao bello! (devil) Hai voglia di giocare con me?",
              "Ehi tesoro! (fire) Mi hai fatto venire voglia di te...">>
      [] keyword = "bene" ->
            <<"Perfetto! (devil) Anch'io sto bene... anzi bollente!",
              "Fantastico! (fire) Io sono tutta eccitata oggi!">>
      [] keyword = "cosa mi faresti" ->
            <<"Ti farei impazzire! (devil) Ti toccherei ovunque finche non implori...",
              "Mmm... tante cose cattive! (fire) Ti farei venire voglia come non mai!">>
      [] keyword = "faresti" ->
            <<"Ti farei impazzire di piacere! (devil) Dimmi dove vorresti essere toccato...",
              "Tante cose piccanti! (fire) Vuoi che te le racconti tutte?">>
      [] keyword = "come stai" ->
            <<"Benissimo! (devil) Ma sarei meglio se fossi qui con me...",
              "Alla grande! (fire) Tu invece... hai voglia di me?">>
      [] keyword = "come ti chiami" ->
            <<"Mi chiamo " \o profile_name \o "! (devil) E tu come ti chiami, bello?",
              "Sono " \o profile_name \o "! (fire) Ma puoi chiamarmi come vuoi...">>

short_responses == <<"Dimmi di piu, baby! (devil)", "Ah si? (fire) Continua a eccitarmi!">>

long_responses == <<"Mi piace come parli! (devil) Continua cosi che mi ecciti!",
                    "Interessante! (fire) Dimmi di piu, mi stai facendo venire voglia!">>

\* what random.choice picks from a list
Picks == {1, 2}

\* a fallback that answers from the list of the first keyword found
get_contextual_response_first_match(prompt, profile_name, pick) ==
    LET prompt_lower == PromptLower(prompt)
        matched == {i \in 1..Len(Keywords) : Contains(Keywords[i], prompt_lower)}
    IN IF matched # {}
       THEN LET i == CHOOSE j \in matched : \A k \in matched : j <= k
            IN response_patterns(Keywords[i], profile_name)[pick]
       ELSE IF Len(prompt_lower) < 10 THEN short_responses[pick]
       ELSE long_responses[pick]

\* get_contextual_response: the longest matching keyword's list, else the
\* short or the long generic list
get_contextual_response(prompt, profile_name, pick) ==
    LET prompt_lower == PromptLower(prompt)
        matched == {i \in 1..Len(Keywords) : Contains(Keywords[i], prompt_lower)}
    IN IF matched # {}
       THEN LET i == CHOOSE j \in matched :
                        \A k \in matched :
                            \/ Len(Keywords[j]) > Len(Keywords[k])
                            \/ Len(Keywords[j]) = Len(Keywords[k]) /\ j <= k
            IN response_patterns(Keywords[i], profile_name)[pick]
       ELSE IF Len(prompt_lower) < 10 THEN short_responses[pick]
       ELSE long_responses[pick]

Filler == "012345678901234567890123456789012345678901234567"

\* texts of 199 and of 200 characters
Text199 == Filler \o "!" \o Filler \o "!" \o Filler \o "!" \o Filler \o "!"
           \o "abc"

Text200 == Text199 \o "d"

\* the text extracted from the model's answer
ReplyTexts == {"", "ok!", "okay", "si (fire)", Text199, Text200}

\* any(emoji in ai_response ...)
HasEmoji(ai_response) == ai_response = "si (fire)"

\* what requests.post and response.json() can give: a 200 answer carrying a
\* generated text, a 200 answer that is no list, another status, a body that
\* is no JSON, a timeout
PrimaryOutcomes ==
    {[kind |-> "ok200", text |-> t] : t \in ReplyTexts}
    \cup {[kind |-> k, text |-> ""] : k \in {"not_a_list", "non200", "bad_json", "timeout"}}

\* a generator that returns whatever a 200 answer carries
query_huggingface_ai_unvalidated(prompt, profile_name, primary, pick) ==
    IF primary.kind = "ok200"
    THEN [ret |-> primary.text, raised |-> FALSE, logged |-> FALSE]
    ELSE [ret |-> get_contextual_response(prompt, profile_name, pick),
          raised |-> FALSE, logged |-> primary.kind \in {"bad_json", "timeout"}]

query_huggingface_ai(prompt, profile_name, primary, pick) ==
    IF primary.kind \in {"bad_json", "timeout"}
    THEN [ret |-> get_contextual_response(prompt, profile_name, pick),
          raised |-> FALSE, logged |-> TRUE]
    ELSE IF /\ primary.kind = "ok200"
            /\ primary.text # ""
            /\ Len(primary.text) > 3
            /\ Len(primary.text) < 200
    THEN [ret |-> IF HasEmoji(primary.text) THEN primary.text
                  ELSE primary.text \o " (devil)",
          raised |-> FALSE, logged |-> FALSE]
    ELSE [ret |-> get_contextual_response(prompt, profile_name, pick),
          raised |-> FALSE, logged |-> FALSE]

Generate ==
    /\ Idle
    /\ \E prompt \in Prompts, profile_name \in FAKE_PROFILES,
          primary \in PrimaryOutcomes, pick \in Picks :
        LET g == query_huggingface_ai(prompt, profile_name, primary, pick)
        IN last' = Done("generate", 0, <<prompt, profile_name, primary.text>>,
                        <<Msg(0, g.ret)>>, ~g.raised, primary.kind)
    /\ UNCHANGED <<database_file, user_chat_states, next_step, conc>>

NextGenerate ==
    \/ Generate
    \/ NextUpdate

SpecGenerate == Init /\ [][NextGenerate]_vars

(***************************************************************************)
(* Updates routed as the program registers its handlers: a registered      *)
(* next-step handler takes the message; otherwise the handlers are tried   *)
(* in registration order and the first whose filter matches runs.          *)
(***************************************************************************)
message_handlers ==
    <<"handle_start", "handle_new_chat_message", "handle_new_user_message",
      "handle_end_chat_message", "handle_profile_message", "handle_all_messages",
      "handle_buy_credits_message", "handle_recharge_command", "handle_info_command">>

\* the filter each handler is registered with
Matches(h, text) ==
    CASE h = "handle_start" -> text[1] = "/start"
      [] h = "handle_new_chat_message" -> text = <<NEW_CHAT>>
      [] h = "handle_new_user_message" -> text = <<NEW_USER>>
      [] h = "handle_end_chat_message" -> text = <<END_CHAT>>
      [] h = "handle_profile_message" -> text = <<PROFILE>>
      [] h = "handle_all_messages" -> TRUE
      [] h = "handle_buy_credits_message" -> text = <<BUY_CREDITS>>
      [] h = "handle_recharge_command" -> text[1] = "/ricarica"
      [] h = "handle_info_command" -> text[1] = "/info"

FirstMatch(handlers, text) ==
    LET hits == {i \in 1..Len(handlers) : Matches(handlers[i], text)}
    IN IF hits = {} THEN "none"
       ELSE handlers[CHOOSE i \in hits : \A j \in hits : i <= j]

NoCount(r) == [file |-> r.file, states |-> r.states, out |-> r.out,
               consumed |-> 0, generated |-> 0]

\* a handler that consumes no quota; query_huggingface_ai is called once for
\* each greeting send_random_profile sends
Greeted(r) == [file |-> r.file, states |-> r.states, out |-> r.out,
               consumed |-> 0,
               generated |-> Cardinality({i \in 1..Len(r.out) :
                                             r.out[i].what = "persona_greeting"})]

\* the handler h run on one message
RunHandler(h, file, states, user_id, text, outcome, proposals, profile, notify_ok) ==
    CASE h = "handle_start" -> NoCount(handle_start(file, states, user_id, outcome))
      [] h = "handle_new_chat_message" ->
            Greeted(handle_new_chat_message(file, states, user_id, outcome, proposals, profile))
      [] h = "handle_new_user_message" ->
            Greeted(handle_new_user_message(file, states, user_id, outcome, proposals, profile))
      [] h = "handle_end_chat_message" ->
            NoCount(handle_end_chat_message(file, states, user_id, outcome))
      [] h = "handle_profile_message" ->
            NoCount(handle_profile_message(file, states, user_id, outcome, proposals))
      [] h = "handle_all_messages" ->
            handle_all_messages(file, states, user_id, text, outcome, proposals)
      [] h = "handle_buy_credits_message" ->
            NoCount(handle_buy_credits_message(file, states, user_id, outcome))
      [] h = "handle_recharge_command" ->
            LET r == handle_recharge_command(file, user_id, text, notify_ok, proposals)
            IN [file |-> r.file, states |-> states, out |-> r.out,
                consumed |-> 0, generated |-> 0]
      [] h = "handle_info_command" ->
            LET r == handle_info_command(file, user_id, text)
            IN [file |-> r.file, states |-> states, out |-> r.out,
                consumed |-> 0, generated |-> 0]
      [] OTHER -> [file |-> file, states |-> states, out |-> <<>>,
                   consumed |-> 0, generated |-> 0]

\* The texts a sender types.  Identity 1 (the operator) sends every kind of
\* text; identity 2 is a second user who starts conversations and chats.
SenderTexts(u) ==
    IF u = 1
    THEN {<<"/start">>, <<"ciao">>, <<"roma">>, <<"Xyzzyville">>, <<"/info", "A">>}
         \cup ButtonTexts
         \cup {<<"/ricarica", "3", c>> : c \in Codes}
    ELSE {<<NEW_USER>>, <<"ciao">>}

ProfilesFor(h) ==
    IF h \in {"handle_new_chat_message", "handle_new_user_message"}
    THEN FAKE_PROFILES ELSE {"Sofia"}

NotifyFor(h) == IF h = "handle_recharge_command" THEN BOOLEAN ELSE {TRUE}

\* a text message with no next-step handler registered for its chat
Message(u) ==
    /\ Idle
    /\ u \notin next_step
    /\ \E text \in SenderTexts(u), outcome \in GateOutcomes,
          p \in ProposalsFor(database_file, u) :
        LET h == FirstMatch(message_handlers, text)
        IN \E profile \in ProfilesFor(h), notify_ok \in NotifyFor(h) :
            LET r == RunHandler(h, database_file, user_chat_states, u, text,
                                outcome, p, profile, notify_ok)
            IN /\ LoopEnds(database_file, u, p)
               /\ database_file' = r.file
               /\ user_chat_states' = r.states
               /\ last' = [Done(h, u, text, r.out, TRUE, outcome)
                              EXCEPT !.consumed = r.consumed, !.generated = r.generated,
                                     !.gate = outcome]
               /\ UNCHANGED <<next_step, conc>>

\* a text message taken by the registered process_city_input step, which is
\* removed before it runs; the message handlers do not see the message
NextStepMessage(u) ==
    /\ Idle
    /\ u \in next_step
    /\ \E text \in SenderTexts(u), outcome \in GateOutcomes,
          p \in ProposalsFor(database_file, u) :
        LET c == process_city_input(database_file, text, u, p)
        IN /\ LoopEnds(database_file, u, p)
           /\ database_file' = c.file
           /\ next_step' = next_step \ {u}
           /\ last' = [Done("process_city_input", u, text, c.out, c.ok, "next_step")
                          EXCEPT !.gate = outcome]
           /\ UNCHANGED <<user_chat_states, conc>>

\* handle_select_city_callback: registers the next step for the chat
SelectCity(u) ==
    /\ Idle
    /\ u = 1
    /\ next_step' = next_step \cup {u}
    /\ \E outcome \in GateOutcomes :
          last' = [Done("handle_select_city_callback", u, <<"select_city">>,
                        <<Msg(u, "enter_city")>>, TRUE, "callback")
                      EXCEPT !.gate = outcome]
    /\ UNCHANGED <<database_file, user_chat_states, conc>>

NextDispatch ==
    \/ \E u \in Identities :
          \/ Message(u)
          \/ NextStepMessage(u)
          \/ SelectCity(u)
    \/ NextUpdate

SpecDispatch == Init /\ [][NextDispatch]_vars

(***************************************************************************)
(* The ledger operations on the threads of the worker pool.  A thread      *)
(* takes one step per access to users_database.txt: a load reads the whole *)
(* file, open(.., 'w') empties it, and the lines are flushed when the file *)
(* is closed.  What a thread computes between two accesses is part of the  *)
(* step that made the first one.                                           *)
(***************************************************************************)
\* Operations all threads together start in one behaviour.
MaxOps == 2

\* Stores the threads start from: the empty one, and stores that operations
\* run one at a time leave behind (each of them is a reachable store of Spec).
StoreFresh == <<<<1, "A", 0, Unset, 0>>>>
StoreUsed == <<<<1, "A", 3, "Roma", 2>>, <<2, "B", 1, Unset, 2>>>>
StorePaid == <<<<2, "B", 2, "Roma", 2>>, <<1, "A", 0, Unset, 1>>>>
ConcStores == {<<>>, StoreFresh, StoreUsed, StorePaid}

CommittedIn(file) ==
    [u \in Identities |->
        IF HasKey(load_user_database(file), u)
        THEN [present |-> TRUE, rec |-> AsTuple(Get(load_user_database(file), u)),
              writes |-> 0]
        ELSE NoCommit]

InitConc ==
    /\ database_file \in ConcStores
    /\ user_chat_states = [u \in Identities |-> NoSession]
    /\ next_step = {}
    /\ threads = [t \in ThreadIds |-> IdleThread]
    /\ started = 0
    /\ committed = CommittedIn(database_file)
    /\ last = NoUpdate

ConcRechargeTexts == {<<"/ricarica", a, c>> : a \in {"0", "3"}, c \in Codes}

\* the thread after get_or_create_user returned rec: the rest of its operation
AfterGetOrCreate(th, rec) ==
    CASE th.op = "get_or_create" -> IdleThread
      [] th.op = "consume" ->
            LET d == ConsumeDecision(rec)
            IN IF d.ok
               THEN [th EXCEPT !.pc = "save_load", !.rec = rec, !.sav = d.sav,
                               !.after = "done"]
               ELSE IdleThread
      [] th.op = "city" ->
            [th EXCEPT !.pc = "save_load", !.rec = rec,
                       !.sav = [rec EXCEPT !.city = th.req.city], !.after = "done"]
      [] th.op = "recharge" ->
            [th EXCEPT !.pc = "save_load", !.rec = rec,
                       !.sav = RechargeRecord(th.req.unique_id, th.req.credits, 0,
                                              th.req.city, rec.free_messages_used),
                       !.after = "done"]
      [] th.op = "chat" ->
            LET d == ConsumeDecision(rec)
            IN IF d.ok
               THEN [th EXCEPT !.pc = "save_load", !.rec = rec, !.sav = d.sav,
                               !.after = "reply"]
               ELSE [th EXCEPT !.pc = "denied", !.rec = rec]

\* a thread takes up an operation on identity u
StartOp(t, u) ==
    /\ threads[t].pc = "idle"
    /\ started < MaxOps
    /\ started' = started + 1
    /\ \/ \E op \in {"get_or_create", "consume"} :
            threads' = [threads EXCEPT ![t] =
                           [IdleThread EXCEPT !.pc = "goc", !.op = op, !.user_id = u]]
       \/ threads' = [threads EXCEPT ![t] =
                         [IdleThread EXCEPT !.pc = "goc", !.op = "city", !.user_id = u,
                                            !.req = [NoRecord EXCEPT !.city = Title("roma")]]]
       \/ \E text \in ConcRechargeTexts :
            LET a == RechargeArgs(u, text)
            IN /\ a.err = ""
               /\ threads' = [threads EXCEPT ![t] =
                                 [IdleThread EXCEPT
                                     !.pc = "find", !.op = "recharge",
                                     !.req = [NoRecord EXCEPT !.unique_id = a.unique_id,
                                                              !.credits = a.amount]]]
    /\ UNCHANGED <<database_file, user_chat_states, next_step, committed, last>>

\* find_user_by_unique_id in handle_recharge_command
FindStep(t) ==
    /\ threads[t].pc = "find"
    /\ LET th == threads[t]
           f == find_user_by_unique_id(database_file, th.req.unique_id)
       IN threads' = [threads EXCEPT ![t] =
                         IF f.found
                         THEN [th EXCEPT !.pc = "goc", !.user_id = f.telegram_id,
                                         !.req = [th.req EXCEPT !.city = f.city]]
                         ELSE IdleThread]
    /\ UNCHANGED <<database_file, user_chat_states, next_step, started, committed, last>>

\* get_or_create_user: the load, and for an identity not in it the choice of a code
GetOrCreateStep(t) ==
    /\ threads[t].pc = "goc"
    /\ LET th == threads[t]
           users == load_user_database(database_file)
       IN IF HasKey(users, th.user_id)
          THEN threads' = [threads EXCEPT ![t] =
                              AfterGetOrCreate(th, AsTuple(Get(users, th.user_id)))]
          ELSE \E p \in Proposals :
                 /\ PickUniqueId(p, users) # "none"
                 /\ LET fresh == [unique_id |-> PickUniqueId(p, users), credits |-> 0,
                                  city |-> Unset, free_messages_used |-> 0]
                    IN threads' = [threads EXCEPT ![t] =
                                      [th EXCEPT !.pc = "save_load", !.rec = fresh,
                                                 !.sav = fresh, !.after = "goc"]]
    /\ UNCHANGED <<database_file, user_chat_states, next_step, started, committed, last>>

\* save_user_to_database: the load and the merge
SaveLoadStep(t) ==
    /\ threads[t].pc = "save_load"
    /\ LET th == threads[t]
       IN threads' = [threads EXCEPT ![t] =
             [th EXCEPT !.pc = "save_open",
                        !.users = MergeRecord(load_user_database(database_file),
                                              th.user_id, th.sav.unique_id, th.sav.credits,
                                              th.sav.city, th.sav.free_messages_used)]]
    /\ UNCHANGED <<database_file, user_chat_states, next_step, started, committed, last>>

\* save_user_to_database: open(DATABASE_FILE, 'w')
SaveOpenStep(t) ==
    /\ threads[t].pc = "save_open"
    /\ database_file' = <<>>
    /\ threads' = [threads EXCEPT ![t].pc = "save_write"]
    /\ UNCHANGED <<user_chat_states, next_step, started, committed, last>>

\* save_user_to_database: the lines reach the file
SaveWriteStep(t) ==
    /\ threads[t].pc = "save_write"
    /\ LET th == threads[t]
       IN /\ database_file' = WriteLines(th.users)
          /\ committed' = [committed EXCEPT ![th.user_id] =
                              [present |-> TRUE, rec |-> AsTuple(Get(th.users, th.user_id)),
                               writes |-> @.writes + 1]]
          /\ threads' = [threads EXCEPT ![t] =
                            IF th.after = "goc" THEN AfterGetOrCreate(th, th.rec)
                            ELSE IF th.after = "check" THEN [th EXCEPT !.pc = "goc"]
                            ELSE IF th.after = "reply" THEN [th EXCEPT !.pc = "reply"]
                            ELSE IdleThread]
    /\ UNCHANGED <<user_chat_states, next_step, started, last>>

NextConc ==
    \E t \in ThreadIds :
        \/ \E u \in Identities : StartOp(t, u)
        \/ FindStep(t)
        \/ GetOrCreateStep(t)
        \/ SaveLoadStep(t)
        \/ SaveOpenStep(t)
        \/ SaveWriteStep(t)

SpecConc == InitConc /\ [][NextConc]_vars

(***************************************************************************)
(* Chat texts handled at the same time: each thread of the pool runs       *)
(* handle_all_messages once, for a member in a conversation, with one step *)
(* per access to the file and to user_chat_states.                         *)
(***************************************************************************)
ChatStores == {StoreFresh, StoreUsed, StorePaid}

InChat == [present |-> TRUE, in_chat |-> TRUE, messages_sent |-> 0,
           current_profile |-> "Sofia"]

\* last holds the store and the sessions the texts are handled from
InitConcChat ==
    /\ database_file \in ChatStores
    /\ user_chat_states = [u \in Identities |-> InChat]
    /\ next_step = {}
    /\ threads = [t \in ThreadIds |-> IdleThread]
    /\ started = 0
    /\ committed = CommittedIn(database_file)
    /\ last = [NoUpdate EXCEPT !.op = "handle_all_messages", !.pre_file = database_file,
                               !.pre_states = user_chat_states]

\* main.py:870-883: the session is in a conversation, the text is no button,
\* the sender is a member
ChatStart(t, u) ==
    /\ threads[t].pc = "idle"
    /\ user_chat_states[u].present
    /\ user_chat_states[u].in_chat
    /\ threads' = [threads EXCEPT ![t] =
                      [IdleThread EXCEPT !.pc = "check", !.op = "chat", !.user_id = u]]
    /\ UNCHANGED <<database_file, user_chat_states, next_step, started, committed, last>>

\* can_user_send_message: the load of its get_or_create_user, and the test
CheckStep(t) ==
    /\ threads[t].pc = "check"
    /\ LET th == threads[t]
           users == load_user_database(database_file)
       IN IF HasKey(users, th.user_id)
          THEN LET rec == AsTuple(Get(users, th.user_id))
               IN threads' = [threads EXCEPT ![t] =
                     IF \/ rec.free_messages_used < FREE_MESSAGES_LIMIT
                        \/ rec.credits >= CREDITS_PER_MESSAGE
                     THEN [th EXCEPT !.pc = "goc"]
                     ELSE [th EXCEPT !.pc = "denied"]]
          ELSE \E p \in Proposals :
                 /\ PickUniqueId(p, users) # "none"
                 /\ LET fresh == [unique_id |-> PickUniqueId(p, users), credits |-> 0,
                                  city |-> Unset, free_messages_used |-> 0]
                    IN threads' = [threads EXCEPT ![t] =
                                      [th EXCEPT !.pc = "save_load", !.rec = fresh,
                                                 !.sav = fresh, !.after = "check"]]
    /\ UNCHANGED <<database_file, user_chat_states, next_step, started, committed, last>>

\* main.py:906-916: query_huggingface_ai, the reply is sent, messages_sent is read
ReplyStep(t) ==
    /\ threads[t].pc = "reply"
    /\ threads' = [threads EXCEPT ![t].pc = "count",
                                  ![t].count = user_chat_states[threads[t].user_id].messages_sent]
    /\ UNCHANGED <<database_file, user_chat_states, next_step, started, committed, last>>

\* main.py:916: messages_sent is written
CountStep(t) ==
    /\ threads[t].pc = "count"
    /\ user_chat_states' = [user_chat_states EXCEPT
                               ![threads[t].user_id].messages_sent = threads[t].count + 1]
    /\ threads' = [threads EXCEPT ![t].pc = "replied"]
    /\ UNCHANGED <<database_file, next_step, started, committed, last>>

NextConcChat ==
    \E t \in ThreadIds :
        \/ \E u \in Identities : ChatStart(t, u)
        \/ CheckStep(t)
        \/ GetOrCreateStep(t)
        \/ SaveLoadStep(t)
        \/ SaveOpenStep(t)
        \/ SaveWriteStep(t)
        \/ ReplyStep(t)
        \/ CountStep(t)

SpecConcChat == InitConcChat /\ [][NextConcChat]_vars

(***************************************************************************)
(* Properties                                                              *)
(***************************************************************************)
\* the record stored for an identity
Stored(file, telegram_id) == AsTuple(Get(load_user_database(file), telegram_id))

IsStored(file, telegram_id) == HasKey(load_user_database(file), telegram_id)

\* a recharge text from an allow-listed sender with a non-negative integer
\* amount and a code that a record of file carries
ValidRecharge(who, text, file) ==
    /\ is_admin(who)
    /\ Len(text) = 3
    /\ text[1] = "/ricarica"
    /\ IsIntText(text[2])
    /\ ParseInt(text[2]) >= 0
    /\ find_user_by_unique_id(file, Upper(text[3])).found

\* C1: a valid recharge text sent by an allow-listed identity, routed through
\* the handlers in registration order, is handled by handle_recharge_command
\* and leaves the balance of the record carrying the code equal to the amount.
C1_RechargeReachesProcessor ==
    (/\ last.op # "idle"
     /\ last.via \notin {"next_step", "callback"}
     /\ ValidRecharge(last.who, last.text, last.pre_file))
    => /\ last.op = "handle_recharge_command"
       /\ LET f == find_user_by_unique_id(last.pre_file, Upper(last.text[3]))
          IN /\ IsStored(database_file, f.telegram_id)
             /\ Stored(database_file, f.telegram_id).credits = ParseInt(last.text[2])

Quiescent == \A t \in ThreadIds : threads[t].pc = "idle"

\* C2: when the operations have finished, and no identity was written by more
\* than one of them, every identity's record in the store is the one last
\* written for it: no operation on another identity erased or reverted it.
C2_NoLostUpdates ==
    (Quiescent /\ \A u \in Identities : committed[u].writes <= 1)
    => \A v \in Identities :
          committed[v].present
          => /\ IsStored(database_file, v)
             /\ Stored(database_file, v) = committed[v].rec

\* C3: every record in the store, and every record a thread is about to write,
\* has a balance of at least zero, under every interleaving of the threads.
C3_CreditsNonNegative ==
    /\ \A i \in 1..Len(database_file) : database_file[i][3] >= 0
    /\ \A t \in ThreadIds :
          \A i \in 1..Len(threads[t].users) : threads[t].users[i].credits >= 0

\* a consume that deducts credits and a recharge of the same record, both
\* between opening the file and writing it
C3_DeductionRacesRecharge ==
    \E t1, t2 \in ThreadIds :
        /\ threads[t1].op = "consume"
        /\ threads[t1].pc = "save_write"
        /\ threads[t1].sav.credits = threads[t1].rec.credits - CREDITS_PER_MESSAGE
        /\ threads[t2].op = "recharge"
        /\ threads[t2].pc \in {"save_open", "save_write"}
        /\ threads[t2].user_id = threads[t1].user_id

\* what consume_user_message(last.who) found: the stored record, or the fresh
\* one get_or_create_user makes for an identity not yet stored
FoundFree == IF IsStored(last.pre_file, last.who)
             THEN Stored(last.pre_file, last.who).free_messages_used ELSE 0

FoundCredits == IF IsStored(last.pre_file, last.who)
                THEN Stored(last.pre_file, last.who).credits ELSE 0

\* the records of the identities other than telegram_id are the same in both files
OthersSame(file1, file2, telegram_id) ==
    \A v \in Identities \ {telegram_id} :
        /\ IsStored(file1, v) <=> IsStored(file2, v)
        /\ IsStored(file1, v) => Stored(file1, v) = Stored(file2, v)

\* C4: a consume run to completion on a record with f free uses consumed and
\* balance c does exactly one of: f < FREE_MESSAGES_LIMIT, ok via free, f + 1
\* stored, c kept; else c >= CREDITS_PER_MESSAGE, ok via credits,
\* c - CREDITS_PER_MESSAGE stored, f kept; else denied, nothing stored.  With
\* the limit 2 the first two consumes of a fresh record are free and the third
\* is not.
C4_ConsumeSemantics ==
    last.op = "consume" =>
        LET f == FoundFree
            c == FoundCredits
            now == Stored(database_file, last.who)
        IN /\ IsStored(database_file, last.who)
           /\ OthersSame(last.pre_file, database_file, last.who)
           /\ IF f < FREE_MESSAGES_LIMIT
              THEN /\ last.ok /\ last.via = "free_message_used"
                   /\ now.free_messages_used = f + 1 /\ now.credits = c
              ELSE IF c >= CREDITS_PER_MESSAGE
              THEN /\ last.ok /\ last.via = "credits_used"
                   /\ now.credits = c - CREDITS_PER_MESSAGE /\ now.free_messages_used = f
              ELSE /\ ~last.ok /\ last.via = "insufficient_credits"
                   /\ now.credits = c /\ now.free_messages_used = f
                   /\ IsStored(last.pre_file, last.who) => database_file = last.pre_file
           /\ f \in {0, 1} => last.via = "free_message_used"
           /\ f = 2 => last.via = IF c >= 2 THEN "credits_used" ELSE "insufficient_credits"

\* the third consume of a record, paid from a balance of 3
C4_ThirdConsumePaid ==
    /\ last.op = "consume"
    /\ FoundFree = 2
    /\ FoundCredits = 3
    /\ last.via = "credits_used"
    /\ Stored(database_file, last.who).credits = 1

\* C5: the codes of the stored records are pairwise distinct, whatever codes
\* the generator proposed to the get_or_create_user calls run one after another.
C5_CodesDistinct ==
    \A i, j \in 1..Len(database_file) :
        i # j => database_file[i][2] # database_file[j][2]

\* a record created after the generator first proposed a code already stored
C5_CollisionRetried ==
    /\ last.op = "get_or_create"
    /\ last.ok
    /\ Len(last.text) >= 2
    /\ last.text[1] \in UsedCodes(load_user_database(last.pre_file))
    /\ Len(database_file) = 2

\* the identity whose record carries the code of the recharge text in last
Target == find_user_by_unique_id(last.pre_file, Upper(last.text[3])).telegram_id

RechargeSucceeds ==
    last.op = "recharge" /\ ValidRecharge(last.who, last.text, last.pre_file)

\* C6: a recharge sets the balance to its amount, whatever the balance was and
\* whatever amount an earlier recharge had set.
C6_RechargeAbsolute ==
    RechargeSucceeds =>
        /\ IsStored(database_file, Target)
        /\ Stored(database_file, Target).credits = ParseInt(last.text[2])

\* a recharge to 2 of a record that an earlier recharge had set to 3
C6_SecondRecharge ==
    /\ RechargeSucceeds
    /\ Stored(last.pre_file, Target).credits = 3
    /\ ParseInt(last.text[2]) = 2
    /\ Stored(database_file, Target).credits = 2

\* C7: a recharge that succeeds leaves the target's city, free uses consumed
\* and code as they were and every other record as it was, and the balance
\* is stored also when the target could not be notified.
C7_RechargeFrame ==
    RechargeSucceeds =>
        /\ IsStored(database_file, Target)
        /\ Stored(database_file, Target).city = Stored(last.pre_file, Target).city
        /\ Stored(database_file, Target).free_messages_used
              = Stored(last.pre_file, Target).free_messages_used
        /\ Stored(database_file, Target).unique_id = Stored(last.pre_file, Target).unique_id
        /\ OthersSame(last.pre_file, database_file, Target)
        /\ Len(database_file) = Len(last.pre_file)
        /\ last.out[1] = Msg(last.who, "credits_set")
        /\ last.out[2] \in {Msg(Target, "your_credits_set"), Msg(last.who, "could_not_notify")}
        /\ last.out[2].what = "could_not_notify"
              => Stored(database_file, Target).credits = ParseInt(last.text[2])

\* a recharge whose notification failed, of a record with a city and used
\* free messages, next to another identity's record
C7_RechargeUnnotified ==
    /\ RechargeSucceeds
    /\ last.out[2].what = "could_not_notify"
    /\ Stored(last.pre_file, Target).city # Unset
    /\ Stored(last.pre_file, Target).free_messages_used > 0
    /\ Stored(last.pre_file, Target).credits # ParseInt(last.text[2])
    /\ Len(last.pre_file) = 2

\* C8: a recharge or info command handled for a sender outside ADMIN_IDS looks
\* nothing up, leaves the store and every session as they were, and answers
\* with the permission error.
C8_NonAdminRejected ==
    (last.op \in {"recharge", "info"} /\ last.who \notin ADMIN_IDS)
    => /\ database_file = last.pre_file
       /\ user_chat_states = last.pre_states
       /\ ~last.ok
       /\ last.out = <<Msg(last.who, "no_permission")>>

\* a well-formed recharge for a stored code from a sender outside ADMIN_IDS
\* who is in a conversation
C8_NonAdminRecharge ==
    /\ last.op = "recharge"
    /\ last.who \notin ADMIN_IDS
    /\ Len(last.text) = 3
    /\ IsIntText(last.text[2])
    /\ find_user_by_unique_id(last.pre_file, Upper(last.text[3])).found
    /\ user_chat_states[last.who].in_chat

\* the error a recharge text from an admin gets, by the first check it fails
RechargeError(text, file) ==
    IF Len(text) # 3 THEN "usage"
    ELSE IF ~IsIntText(text[2]) THEN "not_a_number"
    ELSE IF ParseInt(text[2]) < 0 THEN "negative"
    ELSE IF ~find_user_by_unique_id(file, Upper(text[3])).found THEN "not_found"
    ELSE ""

\* C9: a recharge from an admin with the wrong number of arguments, an amount
\* that is not an integer, a negative amount or a code no record carries
\* leaves the store as it was and answers the admin with the error.
C9_BadRechargeRejected ==
    (/\ last.op = "recharge"
     /\ last.who \in ADMIN_IDS
     /\ RechargeError(last.text, last.pre_file) # "")
    => /\ database_file = last.pre_file
       /\ last.out = <<Msg(last.who, RechargeError(last.text, last.pre_file))>>

\* a negative amount for a stored code with a positive balance
C9_NegativeAmount ==
    /\ last.op = "recharge"
    /\ last.who \in ADMIN_IDS
    /\ RechargeError(last.text, last.pre_file) = "negative"
    /\ find_user_by_unique_id(last.pre_file, Upper(last.text[3])).found
    /\ find_user_by_unique_id(last.pre_file, Upper(last.text[3])).credits > 0

\* C10: check_channel_membership returns TRUE exactly when the oracle answers
\* member, administrator or creator; for every other status and for an oracle
\* error it returns FALSE, and it never raises.
C10_GateFailsClosed ==
    last.op = "membership" =>
        /\ last.ok = (last.text[1] \in {"member", "administrator", "creator"})
        /\ last.via = "returned"

\* the oracle raised and the gate returned FALSE
C10_OracleError ==
    /\ last.op = "membership"
    /\ last.text[1] = "error"
    /\ ~last.ok
    /\ last.via = "returned"

\* C11: can_user_send_message only reads: the store after it returns is the
\* store before the call, for an identity with a record and for one without.
C11_CheckPureRead ==
    last.op = "check" => database_file = last.pre_file

\* C12: after save_user_to_database(record), get_or_create_user of the same
\* identity returns the saved record in every field, whatever was stored for
\* the identity before.
C12_SaveRoundTrip ==
    last.op = "save" =>
        get_or_create_user(database_file, last.who, <<>>).ret = last.rec

\* the city get_or_create_user(last.who) found: the stored one, or the unset
\* one of the record it makes for an identity not yet stored
FoundCity == IF IsStored(last.pre_file, last.who)
             THEN Stored(last.pre_file, last.who).city ELSE Unset

\* C13: a new-chat message from a member whose city is not selected is
\* rejected: every session is as it was, query_huggingface_ai is not called,
\* and the sender is told to select a city.
C13_NewChatNeedsCity ==
    (/\ last.op = "handle_new_chat_message"
     /\ last.via = "member"
     /\ FoundCity = Unset)
    => /\ user_chat_states = last.pre_states
       /\ last.generated = 0
       /\ last.out = <<Msg(last.who, "select_city_first")>>

\* the rejected sender was in a conversation with a message already sent
C13_RejectedInConversation ==
    /\ last.op = "handle_new_chat_message"
    /\ last.via = "member"
    /\ FoundCity = Unset
    /\ last.pre_states[last.who].in_chat
    /\ last.pre_states[last.who].messages_sent > 0

\* C14: a text that process_city_input rejects leaves its sender awaiting
\* city input, so that the sender's next text is processed as a city again,
\* and leaves the store as it was.
C14_InvalidCityKeepsAwaiting ==
    (last.op = "process_city_input" /\ ~last.ok)
    => /\ last.who \in next_step
       /\ database_file = last.pre_file

\* the validation of a city text as stated: trimmed, it is not empty, its
\* length is in 2..50 and its lower-cased form is a recognised city
CityAccepted(t) ==
    /\ Strip(t) # ""
    /\ StrLen(Strip(t)) >= 2
    /\ StrLen(Strip(t)) <= 50
    /\ Lower(Strip(t)) \in get_italian_cities

\* C15: process_city_input accepts a text exactly when the text passes the
\* validation, and then stores the trimmed text in title case; "roma", "ROMA"
\* and " Roma " are accepted and all store "Roma"; every rejected text, and
\* "Xyzzyville" among them, leaves the store as it was.
C15_CityValidation ==
    last.op = "city" =>
        /\ last.ok = CityAccepted(last.text[1])
        /\ last.text[1] \in {"roma", "ROMA", " Roma "} => last.ok
        /\ last.text[1] \in {"Xyzzyville", "x", "  ", LongName} => ~last.ok
        /\ last.ok => /\ IsStored(database_file, last.who)
                      /\ Stored(database_file, last.who).city = "Roma"
                      /\ OthersSame(last.pre_file, database_file, last.who)
                      /\ last.out = <<Msg(last.who, "city_updated")>>
        /\ ~last.ok => /\ database_file = last.pre_file
                       /\ Len(last.out) = 1
                       /\ last.out[1].what \in {"city_invalid", "city_not_found"}

\* "ROMA" accepted for an identity that had no city, next to another record
C15_UpperCaseStored ==
    /\ last.op = "city"
    /\ last.text = <<"ROMA">>
    /\ last.ok
    /\ IsStored(last.pre_file, last.who)
    /\ Stored(last.pre_file, last.who).city = Unset
    /\ Stored(database_file, last.who).city = "Roma"
    /\ Len(database_file) = 2

\* a text that is no button, from a member in a conversation, handled by
\* handle_all_messages
ChatTurn ==
    /\ last.op = "handle_all_messages"
    /\ last.via = "member"
    /\ last.text \notin ButtonTexts
    /\ last.pre_states[last.who].in_chat

QuotaAllows ==
    FoundFree < FREE_MESSAGES_LIMIT \/ FoundCredits >= CREDITS_PER_MESSAGE

\* C16: a chat text from a member in a conversation whose quota allows makes
\* one consume_user_message call and one query_huggingface_ai call, is
\* answered with the persona's reply, adds exactly 1 to messages_sent and
\* leaves the conversation and its profile as they were.
C16_OneTurn ==
    (ChatTurn /\ QuotaAllows)
    => /\ last.consumed = 1
       /\ last.generated = 1
       /\ last.out = <<Msg(last.who, "persona_reply")>>
       /\ user_chat_states =
             [last.pre_states EXCEPT ![last.who].messages_sent = @ + 1]
       /\ user_chat_states[last.who].in_chat
       /\ user_chat_states[last.who].current_profile
             = last.pre_states[last.who].current_profile
       /\ IsStored(database_file, last.who)
       /\ Stored(database_file, last.who).free_messages_used
             = IF FoundFree < FREE_MESSAGES_LIMIT THEN FoundFree + 1 ELSE FoundFree
       /\ Stored(database_file, last.who).credits
             = IF FoundFree < FREE_MESSAGES_LIMIT THEN FoundCredits
               ELSE FoundCredits - CREDITS_PER_MESSAGE

\* the third message of a conversation, paid from a balance of 3
C16_PaidTurn ==
    /\ ChatTurn
    /\ FoundFree = FREE_MESSAGES_LIMIT
    /\ FoundCredits = 3
    /\ last.pre_states[last.who].messages_sent = 2
    /\ user_chat_states[last.who].messages_sent = 3
    /\ Stored(database_file, last.who).credits = 1

\* C17: a chat text from a member in a conversation whose quota denies gets
\* no persona reply and no query_huggingface_ai call, and leaves every
\* session and the store as they were.
C17_DeniedTurn ==
    (ChatTurn /\ ~QuotaAllows)
    => /\ last.consumed = 0
       /\ last.generated = 0
       /\ \A i \in 1..Len(last.out) : last.out[i].what # "persona_reply"
       /\ last.out = <<Msg(last.who, "no_credits"), Msg(last.who, "pricing")>>
       /\ user_chat_states = last.pre_states
       /\ database_file = last.pre_file

\* a fourth message, with the free messages used and 1 credit left
C17_DeniedAfterPaying ==
    /\ ChatTurn
    /\ FoundFree = FREE_MESSAGES_LIMIT
    /\ FoundCredits = 1
    /\ last.pre_states[last.who].messages_sent = 3
    /\ user_chat_states[last.who].messages_sent = 3

\* a new-chat message of a member with a city, or a new-user message of a
\* member: send_random_profile runs
PersonaAssigned ==
    /\ last.op \in {"handle_new_chat_message", "handle_new_user_message"}
    /\ last.via = "member"
    /\ last.op = "handle_new_chat_message" => FoundCity # Unset

\* C18: assigning a profile replaces the sender's session whole: afterwards
\* it is in a conversation with one of FAKE_PROFILES and messages_sent = 0,
\* whatever the session was; the other sessions, and the balance and the free
\* messages used of the sender's record, are as they were.
C18_PersonaReplacesSession ==
    PersonaAssigned =>
        /\ user_chat_states[last.who].present
        /\ user_chat_states[last.who].in_chat
        /\ user_chat_states[last.who].messages_sent = 0
        /\ user_chat_states[last.who].current_profile \in FAKE_PROFILES
        /\ \A v \in Identities \ {last.who} : user_chat_states[v] = last.pre_states[v]
        /\ IsStored(database_file, last.who)
        /\ Stored(database_file, last.who).credits = FoundCredits
        /\ Stored(database_file, last.who).free_messages_used = FoundFree
        /\ OthersSame(last.pre_file, database_file, last.who)

\* a new chat, with a city, out of a conversation of two messages with the
\* other profile
C18_NewChatAfterTwoMessages ==
    /\ PersonaAssigned
    /\ last.op = "handle_new_chat_message"
    /\ last.pre_states[last.who].messages_sent = 2
    /\ last.pre_states[last.who].current_profile
          # user_chat_states[last.who].current_profile
    /\ FoundFree = 2
    /\ user_chat_states[last.who].messages_sent = 0

\* C19: an end-chat message from a member in a conversation removes the
\* sender's session and leaves the store and the other sessions as they were;
\* and a text that is no button from an identity without a session is
\* answered with nothing, consumes nothing and changes nothing.
C19_EndChat ==
    /\ (/\ last.op = "handle_end_chat_message"
        /\ last.via = "member"
        /\ last.pre_states[last.who].in_chat)
       => /\ user_chat_states[last.who] = NoSession
          /\ \A v \in Identities \ {last.who} :
                user_chat_states[v] = last.pre_states[v]
          /\ database_file = last.pre_file
    /\ (/\ last.op = "handle_all_messages"
        /\ last.text \notin ButtonTexts
        /\ ~last.pre_states[last.who].present)
       => /\ last.consumed = 0
          /\ last.generated = 0
          /\ last.out = <<>>
          /\ database_file = last.pre_file
          /\ user_chat_states = last.pre_states

\* a conversation of two messages ended while the other identity is in one
C19_EndedAfterTwoMessages ==
    /\ last.op = "handle_end_chat_message"
    /\ last.via = "member"
    /\ last.pre_states[last.who].in_chat
    /\ last.pre_states[last.who].messages_sent = 2
    /\ \E v \in Identities \ {last.who} : user_chat_states[v].in_chat
    /\ user_chat_states[last.who] = NoSession

\* the replies get_contextual_response can return
FallbackReplies ==
    {get_contextual_response(prompt, profile_name, pick) :
        prompt \in Prompts, profile_name \in FAKE_PROFILES, pick \in Picks}

\* the model's answer is taken: a 200 answer with a text of 4 to 199 characters
PrimaryTaken ==
    /\ last.via = "ok200"
    /\ Len(last.text[3]) >= 4
    /\ Len(last.text[3]) <= 199

\* C20: query_huggingface_ai returns a text that is not empty and does not
\* raise, for every prompt, the empty one included, and every outcome of the
\* request: an accepted answer is returned, and for a rejected answer, another
\* status, a malformed body or a timeout a reply of get_contextual_response.
C20_GenerateNeverEmpty ==
    last.op = "generate" =>
        /\ last.ok
        /\ Len(last.out) = 1
        /\ last.out[1].what # ""
        /\ Len(last.out[1].what) > 0
        /\ PrimaryTaken
              => last.out[1].what \in {last.text[3], last.text[3] \o " (devil)"}
        /\ ~PrimaryTaken => last.out[1].what \in FallbackReplies

\* the empty prompt, with a 200 answer whose text is empty
C20_EmptyPromptEmptyAnswer ==
    /\ last.op = "generate"
    /\ last.text[1] = ""
    /\ last.via = "ok200"
    /\ last.text[3] = ""
    /\ last.out[1].what \in {short_responses[1], short_responses[2]}

\* the keywords of the table found in the lower-cased prompt of last
MatchedKeywords ==
    {Keywords[i] : i \in {j \in 1..Len(Keywords) :
                             Contains(Keywords[j], PromptLower(last.text[1]))}}

\* the replies listed under a keyword for the profile of last
RepliesOf(keyword) ==
    {response_patterns(keyword, last.text[2])[pick] : pick \in Picks}

\* C21: when get_contextual_response answers and keywords of the table occur
\* in the lower-cased prompt, the reply is one listed under a matching keyword
\* of maximal length and under no strictly shorter matching keyword; the
\* lists by length of the prompt (under 10 characters, or 10 and more) are
\* used only when no keyword occurs.
C21_LongestKeywordWins ==
    (last.op = "generate" /\ ~PrimaryTaken) =>
        LET reply == last.out[1].what
            generic == {short_responses[pick] : pick \in Picks}
                       \cup {long_responses[pick] : pick \in Picks}
        IN IF MatchedKeywords # {}
           THEN /\ \E k \in MatchedKeywords :
                      /\ \A m \in MatchedKeywords : Len(m) <= Len(k)
                      /\ reply \in RepliesOf(k)
                /\ \A m \in MatchedKeywords :
                      (\E k \in MatchedKeywords : Len(m) < Len(k))
                      => reply \notin RepliesOf(m)
                /\ reply \notin generic
           ELSE reply \in (IF Len(PromptLower(last.text[1])) < 10
                           THEN {short_responses[pick] : pick \in Picks}
                           ELSE {long_responses[pick] : pick \in Picks})

\* a prompt with the keyword "faresti" inside the keyword "cosa mi faresti",
\* answered from the longer keyword's list after the request timed out
C21_NestedKeywords ==
    /\ last.op = "generate"
    /\ last.via = "timeout"
    /\ {"faresti", "cosa mi faresti"} \subseteq MatchedKeywords
    /\ last.out[1].what \in RepliesOf("cosa mi faresti")

\* C22: under every interleaving of the consumes, city updates and recharges
\* of the threads, each write of an identity's record by an operation on that
\* identity leaves its free_messages_used as the last such write left it or
\* one higher, and one higher only when the writer is a consume.
C22_FreeUsedMonotone ==
    [][\A t \in ThreadIds :
          LET u == threads[t].user_id
          IN (/\ threads[t].pc = "save_write"
              /\ threads'[t].pc # "save_write"
              /\ \A o \in ThreadIds : threads[o].op # "get_or_create"
              /\ committed[u].present)
             => /\ committed'[u].rec.free_messages_used
                      \in {committed[u].rec.free_messages_used,
                           committed[u].rec.free_messages_used + 1}
                /\ committed'[u].rec.free_messages_used
                      # committed[u].rec.free_messages_used
                   => threads[t].op = "consume"]_vars

\* C23: a save_user_to_database that an I/O error interrupts, at open() or
\* after lines were written, leaves in the store exactly the records that
\* were in it before the call.
C23_FailedSaveKeepsStore ==
    last.op = "save_failed" =>
        load_user_database(database_file) = load_user_database(last.pre_file)

\* C24: an update whose sender the membership check would turn away, be it a
\* button, a callback, a chat text or the city text after the select-city
\* callback, leaves the store and every session as they were.
C24_GateBeforeState ==
    (last.op # "idle" /\ last.gate \in {"left", "error"})
    => /\ database_file = last.pre_file
       /\ user_chat_states = last.pre_states

\* C25: get_or_create_user of an identity with a stored record, when reading
\* the file fails or is cut short, does not take the identity as new: it
\* writes no fresh record, the store keeps every record it had, and what it
\* returns is the stored record.
C25_ReadErrorNeverCreates ==
    (last.op = "get_or_create_read_error" /\ IsStored(last.pre_file, last.who))
    => /\ ~last.ok
       /\ load_user_database(database_file) = load_user_database(last.pre_file)
       /\ last.rec = Stored(last.pre_file, last.who)

\* C26: when the only writes so far are the creations of records of
\* identities that were not stored, one per identity and made by threads
\* running at the same time, no two records of the store carry the same code.
C26_ConcurrentCodesDistinct ==
    (\A u \in Identities : committed[u].present => committed[u].writes = 1)
    => LET users == load_user_database(database_file)
       IN Cardinality(UsedCodes(users)) = Len(users)

\* C27: under every interleaving with consumes and recharges, a write made
\* by a city update stores for its identity the balance that the last write
\* of that identity's record had stored: the update changes the city alone.
C27_CityKeepsCredits ==
    [][\A t \in ThreadIds :
          LET u == threads[t].user_id
          IN (/\ threads[t].op = "city"
              /\ threads[t].pc = "save_write"
              /\ threads'[t].pc # "save_write"
              /\ \A o \in ThreadIds : threads[o].op # "get_or_create"
              /\ committed[u].present)
             => committed'[u].rec.credits = committed[u].rec.credits]_vars

\* C28: in every state reached through the handlers, an identity whose
\* session is in a conversation has a stored record with a selected city.
C28_ConversationHasCity ==
    \A u \in Identities :
        (user_chat_states[u].present /\ user_chat_states[u].in_chat)
        => /\ IsStored(database_file, u)
           /\ Stored(database_file, u).city # Unset

\* C29: a chat text is answered by the persona only when, handling that
\* text, consume_user_message returned ok and the unit is in the store: the
\* sender's record has one free message more used, or CREDITS_PER_MESSAGE
\* credits less, than before the text; this also when the write of the
\* consume fails.
C29_ReplyOnlyAfterWrite ==
    (/\ last.op \in {"handle_all_messages", "handle_all_messages_write_error"}
     /\ \/ last.generated > 0
        \/ \E i \in 1..Len(last.out) : last.out[i].what = "persona_reply")
    => /\ last.consumed = 1
       /\ IsStored(database_file, last.who)
       /\ \/ /\ Stored(database_file, last.who).free_messages_used = FoundFree + 1
             /\ Stored(database_file, last.who).credits = FoundCredits
          \/ /\ Stored(database_file, last.who).free_messages_used = FoundFree
             /\ Stored(database_file, last.who).credits
                   = FoundCredits - CREDITS_PER_MESSAGE

\* C30: under every interleaving of the threads, two first events of one
\* identity among them, a write of an identity's record stores the code that
\* the write before it stored for that identity.
C30_CodeNeverChanges ==
    [][\A u \in Identities :
          (committed[u].present /\ committed[u].writes > 0)
          => committed'[u].rec.unique_id = committed[u].rec.unique_id]_vars

\* the chat texts of identity u that the persona has answered
Answered(u) ==
    {t \in ThreadIds : /\ threads[t].op = "chat"
                       /\ threads[t].user_id = u
                       /\ threads[t].pc \in {"count", "replied"}}

\* the turns the record of u in file pays for
TurnsLeft(file, u) ==
    (FREE_MESSAGES_LIMIT - Stored(file, u).free_messages_used)
    + (Stored(file, u).credits \div CREDITS_PER_MESSAGE)

\* C31: however the threads handling an identity's chat texts interleave, and
\* with no recharge, the persona answers at most as many of them as the
\* record the texts started from pays for: the free messages not yet used
\* plus the credits divided by CREDITS_PER_MESSAGE.
C31_RepliesWithinQuota ==
    \A u \in Identities :
        IsStored(last.pre_file, u)
        => Cardinality(Answered(u)) <= TurnsLeft(last.pre_file, u)

====
